---- MODULE Spec2Model ----
(***************************************************************************)
(* The reqline endpoint (src/endpoints/reqline/index.js): the parser of    *)
(* the reqline statement (splitByPipes, ensureSingleSpaceAfterKeyword,     *)
(* parseJSONStrict, buildQueryString, constructFullURL, parseReqline) and  *)
(* the handler that parses, calls the HTTP client once and answers.        *)
(*                                                                         *)
(* A JavaScript string is a sequence of one-character strings, its UTF-16  *)
(* code units, indexed from 0 by At.  A printable ASCII unit is the        *)
(* character itself; any other unit is written "\\uXXXX" (upper-case hex). *)
(***************************************************************************)
EXTENDS Integers, Sequences, FiniteSets, TLC

VARIABLES
    pc,         \* where the handler invocation stands: "idle", "awaiting", "done"
    reqline,    \* rc.body && rc.body.reqline of the invocation, a JavaScript value
    segments,   \* what splitByPipes(reqline) did: a result (Ok / Throw), or NotRun
    parsed,     \* what parseReqline(reqline) did: a result (Ok / Throw), or NotRun
    built,      \* the call parseReqline made of constructFullURL, or NoCall
    calls,      \* the calls made on HttpRequest in this invocation, in order
    outcome,    \* how the awaited client call ended, or NoOutcome
    response    \* what the handler returned, or NoResponse

vars == <<pc, reqline, segments, parsed, built, calls, outcome, response>>

----------------------------------------------------------------------------
(* JavaScript strings *)

Min(a, b) == IF a <= b THEN a ELSE b

Max(a, b) == IF a >= b THEN a ELSE b

\* s[i], 0-based
At(s, i) == s[i + 1]

\* The text of a string, for messages and for reading traces.
RECURSIVE Text(_)
Text(s) ==
    IF Len(s) = 0 THEN ""
    ELSE IF Len(s) = 1 THEN s[1]
    ELSE Text(SubSeq(s, 1, Len(s) \div 2)) \o Text(SubSeq(s, (Len(s) \div 2) + 1, Len(s)))

\* String.prototype.substring(start, end): both clamped to [0, length], and
\* SWAPPED when start > end.
substring(s, start, end) ==
    LET a == Min(Max(start, 0), Len(s))
        b == Min(Max(end, 0), Len(s))
    IN  SubSeq(s, Min(a, b) + 1, Max(a, b))

\* String.prototype.substring(start)
substringFrom(s, start) == substring(s, start, Len(s))

\* String.prototype.slice(start, end) for start, end >= 0: clamped, never
\* swapped (empty when start >= end).
slice(s, start, end) ==
    LET a == Min(start, Len(s))
        b == Min(end, Len(s))
    IN  IF a >= b THEN <<>> ELSE SubSeq(s, a + 1, b)

\* String.prototype.slice(start)
sliceFrom(s, start) == slice(s, start, Len(s))

\* whether pattern p occurs in s at index i
OccursAt(s, p, i) ==
    /\ i + Len(p) <= Len(s)
    /\ \A k \in 1..Len(p) : s[i + k] = p[k]

\* the least element of a set of integers, or none when it is empty
LeastOr(S, none) == IF S = {} THEN none ELSE CHOOSE i \in S : \A j \in S : i <= j

\* String.prototype.indexOf(p): the first index where p occurs, or -1
indexOf(s, p) == LeastOr({i \in 0..Len(s) : OccursAt(s, p, i)}, -1)

LowerCase ==
    <<"a", "b", "c", "d", "e", "f", "g", "h", "i", "j", "k", "l", "m",
      "n", "o", "p", "q", "r", "s", "t", "u", "v", "w", "x", "y", "z">>

UpperCase ==
    <<"A", "B", "C", "D", "E", "F", "G", "H", "I", "J", "K", "L", "M",
      "N", "O", "P", "Q", "R", "S", "T", "U", "V", "W", "X", "Y", "Z">>

\* toUpperCase of one ASCII unit
UpperChar(c) ==
    IF \E i \in 1..26 : LowerCase[i] = c
    THEN UpperCase[CHOOSE i \in 1..26 : LowerCase[i] = c]
    ELSE c

\* String.prototype.toUpperCase, on ASCII text
toUpperCase(s) == [i \in 1..Len(s) |-> UpperChar(s[i])]

----------------------------------------------------------------------------
(* Results of a call: a returned value or a thrown Error's message *)

Ok(v) == [ok |-> TRUE, val |-> v, err |-> ""]

Throw(message) == [ok |-> FALSE, val |-> <<>>, err |-> message]

NotRun == [ok |-> FALSE, val |-> <<>>, err |-> "(not run)"]

ErrInvalidInput == "Invalid reqline input"

ErrMissingHTTP == "Missing required HTTP keyword"

ErrMissingURL == "Missing required URL keyword"

ErrMultipleSpaces == "Multiple spaces found where single space expected"

ErrPipeSpacing == "Invalid spacing around pipe delimiter"

ErrMissingSpace == "Missing space after keyword"

ErrKeywordCase == "Keywords must be uppercase"

ErrMethodCase == "HTTP method must be uppercase"

ErrMethod == "Invalid HTTP method. Only GET and POST are supported"

ErrDuplicate(keyword) == "Duplicate section " \o Text(keyword)

ErrJSON(sectionName) == "Invalid JSON format in " \o Text(sectionName) \o " section"

ErrURIMalformed == "URI malformed"

----------------------------------------------------------------------------
(* JavaScript values handed to the handler as rc.body.reqline *)

JSString(s) == [type |-> "string", chars |-> s, text |-> Text(s)]

JSOther(t) == [type |-> t, chars |-> <<>>, text |-> ""]

----------------------------------------------------------------------------
(* splitByPipes *)

\* the first index at or after i that holds a pipe, or the length
NextPipe(statement, i) ==
    LeastOr({j \in i..(Len(statement) - 1) : At(statement, j) = "|"}, Len(statement))

\* splitScan with the token taken to start right after the pipe (i + 1), the
\* padding space not skipped
RECURSIVE splitScanKeepSpace(_, _, _, _)
splitScanKeepSpace(statement, i, tokenStartIndex, segs) ==
    IF i >= Len(statement)
    THEN IF Len(substringFrom(statement, tokenStartIndex)) = 0
         THEN Throw(ErrPipeSpacing)
         ELSE Ok(Append(segs, substringFrom(statement, tokenStartIndex)))
    ELSE IF \/ i - 1 < 0
            \/ i + 1 >= Len(statement)
            \/ At(statement, i - 1) # " "
            \/ At(statement, i + 1) # " "
            \/ (i - 2 >= 0 /\ At(statement, i - 2) = " ")
            \/ (i + 2 < Len(statement) /\ At(statement, i + 2) = " ")
    THEN Throw(ErrPipeSpacing)
    ELSE IF Len(substring(statement, tokenStartIndex, i - 1)) = 0
    THEN Throw(ErrPipeSpacing)
    ELSE splitScanKeepSpace(statement, NextPipe(statement, i + 1), i + 1,
             Append(segs, substring(statement, tokenStartIndex, i - 1)))

\* splitScan without the two checks of the units two places from the pipe
RECURSIVE splitScanLooseSpacing(_, _, _, _)
splitScanLooseSpacing(statement, i, tokenStartIndex, segs) ==
    IF i >= Len(statement)
    THEN IF Len(substringFrom(statement, tokenStartIndex)) = 0
         THEN Throw(ErrPipeSpacing)
         ELSE Ok(Append(segs, substringFrom(statement, tokenStartIndex)))
    ELSE IF \/ i - 1 < 0
            \/ i + 1 >= Len(statement)
            \/ At(statement, i - 1) # " "
            \/ At(statement, i + 1) # " "
    THEN Throw(ErrPipeSpacing)
    ELSE IF Len(substring(statement, tokenStartIndex, i - 1)) = 0
    THEN Throw(ErrPipeSpacing)
    ELSE splitScanLooseSpacing(statement, NextPipe(statement, i + 1), i + 2,
             Append(segs, substring(statement, tokenStartIndex, i - 1)))

\* the for loop of splitByPipes at index i, the next pipe (the iterations on
\* a unit that is no pipe change nothing) or the length, and what follows
\* the loop
RECURSIVE splitScan(_, _, _, _)
splitScan(statement, i, tokenStartIndex, segs) ==
    IF i >= Len(statement)
    THEN IF Len(substringFrom(statement, tokenStartIndex)) = 0
         THEN Throw(ErrPipeSpacing)
         ELSE Ok(Append(segs, substringFrom(statement, tokenStartIndex)))
    ELSE IF \/ i - 1 < 0
            \/ i + 1 >= Len(statement)
            \/ At(statement, i - 1) # " "
            \/ At(statement, i + 1) # " "
            \/ (i - 2 >= 0 /\ At(statement, i - 2) = " ")
            \/ (i + 2 < Len(statement) /\ At(statement, i + 2) = " ")
    THEN Throw(ErrPipeSpacing)
    ELSE IF Len(substring(statement, tokenStartIndex, i - 1)) = 0
    THEN Throw(ErrPipeSpacing)
    ELSE splitScan(statement, NextPipe(statement, i + 1), i + 2,
             Append(segs, substring(statement, tokenStartIndex, i - 1)))

splitByPipes(statement) ==
    IF statement.type # "string"
    THEN Throw(ErrInvalidInput)
    ELSE IF Len(statement.chars) = 0
    THEN Throw(ErrMissingHTTP)
    ELSE IF At(statement.chars, 0) = " " \/ At(statement.chars, Len(statement.chars) - 1) = " "
    THEN Throw(ErrMultipleSpaces)
    ELSE splitScan(statement.chars, NextPipe(statement.chars, 0), 0, <<>>)

----------------------------------------------------------------------------
(* ensureSingleSpaceAfterKeyword *)

ensureSingleSpaceAfterKeyword(segment, keyword) ==
    IF indexOf(segment, keyword) # 0
    THEN Ok(FALSE)
    ELSE LET expectedPrefix == keyword \o <<" ">>
         IN  IF slice(segment, 0, Len(expectedPrefix)) # expectedPrefix
             THEN Ok(FALSE)
             ELSE IF Len(segment) = Len(expectedPrefix)
             THEN Throw(ErrMissingSpace)
             ELSE IF At(segment, Len(expectedPrefix)) = " "
             THEN Throw(ErrMultipleSpaces)
             ELSE Ok(TRUE)

----------------------------------------------------------------------------
(* Code units *)

\* the printable ASCII units, code 32 (space) to 126 (~), in code order (the
\* grave accent, code 96, is written \u0060: a TLA+ string cannot hold it)
Ascii ==
    <<" ", "!", "\"", "#", "$", "%", "&", "'", "(", ")", "*", "+",
      ",", "-", ".", "/", "0", "1", "2", "3", "4", "5", "6", "7",
      "8", "9", ":", ";", "<", "=", ">", "?", "@", "A", "B", "C",
      "D", "E", "F", "G", "H", "I", "J", "K", "L", "M", "N", "O",
      "P", "Q", "R", "S", "T", "U", "V", "W", "X", "Y", "Z", "[",
      "\\", "]", "^", "_", "\\u0060", "a", "b", "c", "d", "e", "f", "g",
      "h", "i", "j", "k", "l", "m", "n", "o", "p", "q", "r", "s",
      "t", "u", "v", "w", "x", "y", "z", "{", "|", "}", "~">>

HexDigits ==
    <<"0", "1", "2", "3", "4", "5", "6", "7", "8", "9", "A", "B", "C", "D", "E", "F">>

IsAscii(c) == \E i \in 1..95 : Ascii[i] = c

\* a unit outside printable ASCII, written \uXXXX
UnitName(code) ==
    "\\u" \o HexDigits[((code \div 4096) % 16) + 1] \o HexDigits[((code \div 256) % 16) + 1]
          \o HexDigits[((code \div 16) % 16) + 1] \o HexDigits[(code % 16) + 1]

\* the unit of a code 0..65535
UnitOf(code) == IF code >= 32 /\ code <= 126 THEN Ascii[code - 31] ELSE UnitName(code)

\* the code of a unit
CodeOf(c) ==
    IF IsAscii(c)
    THEN 31 + CHOOSE i \in 1..95 : Ascii[i] = c
    ELSE CHOOSE code \in 0..65535 : UnitName(code) = c

IsDigit(c) == c \in {"0", "1", "2", "3", "4", "5", "6", "7", "8", "9"}

\* the value of a hex digit of either case, or -1
HexVal(c) ==
    IF \E i \in 1..16 : HexDigits[i] = UpperChar(c)
    THEN (CHOOSE i \in 1..16 : HexDigits[i] = UpperChar(c)) - 1
    ELSE -1

\* s[i], or "" (no unit) past the end
CharAt(s, i) == IF i >= 0 /\ i < Len(s) THEN s[i + 1] ELSE ""

----------------------------------------------------------------------------
(* JSON.parse and parseJSONStrict *)
(* A JSON value is [t, s, m]: t its type; s the text of a string, or of    *)
(* String(n) for a number n; m the members [k, v] of an object in           *)
(* insertion order.  The numerals decoded are the integers (a numeral with *)
(* a fraction or an exponent, and an array, are not decoded: the           *)
(* statements below hold none).                                            *)

JV(t, s, m) == [t |-> t, s |-> s, m |-> m]

JObject(m) == JV("object", <<>>, m)

JString(s) == JV("string", s, <<>>)

JNumber(s) == JV("number", s, <<>>)

JTrue == JV("true", <<>>, <<>>)

JFalse == JV("false", <<>>, <<>>)

JNull == JV("null", <<>>, <<>>)

EmptyObject == JObject(<<>>)

PFail == [ok |-> FALSE, val |-> JNull, pos |-> 0]

PDone(v, pos) == [ok |-> TRUE, val |-> v, pos |-> pos]

IsWs(c) == c \in {" ", UnitName(9), UnitName(10), UnitName(13)}

\* the index of the first unit at or after i that is no JSON white space
RECURSIVE skipWs(_, _)
skipWs(s, i) == IF IsWs(CharAt(s, i)) THEN skipWs(s, i + 1) ELSE i

\* the index of the first unit at or after i that is no digit
RECURSIVE skipDigits(_, _)
skipDigits(s, i) == IF IsDigit(CharAt(s, i)) THEN skipDigits(s, i + 1) ELSE i

\* what stands at j inside a JSON string: its closing quote ("end"), one
\* unit, plain or escaped ("unit", with the index after it), or an error
StringItem(kind, unit, pos) == [kind |-> kind, unit |-> unit, pos |-> pos]

stringItem(s, j) ==
    LET c == CharAt(s, j)
        e == CharAt(s, j + 1)
        h == [k \in 1..4 |-> HexVal(CharAt(s, j + 1 + k))]
    IN  IF c = "" THEN StringItem("fail", "", j)
        ELSE IF c = "\"" THEN StringItem("end", "", j + 1)
        ELSE IF c = "\\"
        THEN IF e \in {"\"", "\\", "/"} THEN StringItem("unit", e, j + 2)
             ELSE IF e = "b" THEN StringItem("unit", UnitOf(8), j + 2)
             ELSE IF e = "f" THEN StringItem("unit", UnitOf(12), j + 2)
             ELSE IF e = "n" THEN StringItem("unit", UnitOf(10), j + 2)
             ELSE IF e = "r" THEN StringItem("unit", UnitOf(13), j + 2)
             ELSE IF e = "t" THEN StringItem("unit", UnitOf(9), j + 2)
             ELSE IF e = "u" /\ \A k \in 1..4 : h[k] >= 0
             THEN StringItem("unit", UnitOf(4096 * h[1] + 256 * h[2] + 16 * h[3] + h[4]), j + 6)
             ELSE StringItem("fail", "", j)
        ELSE IF ~IsAscii(c) /\ CodeOf(c) < 32 THEN StringItem("fail", "", j)
        ELSE StringItem("unit", c, j + 1)

\* a JSON string whose next item is item, the units before it being acc
RECURSIVE parseStringFrom(_, _, _)
parseStringFrom(s, item, acc) ==
    IF item.kind = "fail" THEN PFail
    ELSE IF item.kind = "end" THEN PDone(JString(acc), item.pos)
    ELSE parseStringFrom(s, stringItem(s, item.pos), Append(acc, item.unit))

\* a JSON string from the unit after its opening quote
parseStringBody(s, j, acc) == parseStringFrom(s, stringItem(s, j), acc)

\* a JSON integer whose digits are s[j..end-1], negative or not
numberAt(s, neg, j, end) ==
    IF ~IsDigit(CharAt(s, j)) \/ CharAt(s, end) \in {".", "e", "E"}
    THEN PFail
    ELSE IF neg /\ SubSeq(s, j + 1, end) # <<"0">>
    THEN PDone(JNumber(<<"-">> \o SubSeq(s, j + 1, end)), end)
    ELSE PDone(JNumber(SubSeq(s, j + 1, end)), end)

\* the end of the integer part that starts at j
intEnd(s, j) == IF CharAt(s, j) = "0" THEN j + 1 ELSE skipDigits(s, j)

\* a JSON integer at i
parseNumber(s, i) ==
    IF CharAt(s, i) = "-"
    THEN numberAt(s, TRUE, i + 1, intEnd(s, i + 1))
    ELSE numberAt(s, FALSE, i, intEnd(s, i))

\* setting property key of an object: a new key goes last, a present one
\* keeps its place and takes the new value
PutMember(m, key, v) ==
    IF \E i \in 1..Len(m) : m[i].k = key
    THEN [i \in 1..Len(m) |-> IF m[i].k = key THEN [k |-> key, v |-> v] ELSE m[i]]
    ELSE Append(m, [k |-> key, v |-> v])

MemberFail == [more |-> FALSE, res |-> PFail, pos |-> 0, m |-> <<>>]

\* what follows a member at index e, the members so far being m2
memberEnd(s, e, m2) ==
    IF CharAt(s, e) = "}"
    THEN [more |-> FALSE, res |-> PDone(JObject(m2), e + 1), pos |-> 0, m |-> <<>>]
    ELSE IF CharAt(s, e) # "," THEN MemberFail
    ELSE [more |-> TRUE, res |-> PFail, pos |-> skipWs(s, e + 1), m |-> m2]

\* where the value of a member starts, for a member whose key decoded as key
valuePos(s, key) == skipWs(s, skipWs(s, key.pos) + 1)

\* one member of a JSON object, its key at j decoded as key and its value as
\* v, added to the members m: the object when the closing brace follows,
\* the place of the next key when a comma does, or an error
MemberStep(s, j, m, key, v) ==
    IF CharAt(s, j) # "\"" THEN MemberFail
    ELSE IF ~key.ok THEN MemberFail
    ELSE IF CharAt(s, skipWs(s, key.pos)) # ":" THEN MemberFail
    ELSE IF ~v.ok THEN MemberFail
    ELSE memberEnd(s, skipWs(s, v.pos), PutMember(m, key.val.s, v.val))

RECURSIVE parseJSON(_, _, _, _)
RECURSIVE memberFrom(_, _, _, _)
RECURSIVE MemberNext(_, _)

\* parseJSON(s, i, "value", <<>>): a JSON value at i.
\* parseJSON(s, j, "members", m): the members of a JSON object from the key
\* at j to the closing brace, added to the members m decoded before them.
parseJSON(s, i, what, m) ==
    IF what = "members" THEN memberFrom(s, i, m, parseStringBody(s, i + 1, <<>>))
    ELSE IF CharAt(s, i) = "{"
    THEN IF CharAt(s, skipWs(s, i + 1)) = "}" THEN PDone(EmptyObject, skipWs(s, i + 1) + 1)
         ELSE parseJSON(s, skipWs(s, i + 1), "members", <<>>)
    ELSE IF CharAt(s, i) = "\"" THEN parseStringBody(s, i + 1, <<>>)
    ELSE IF CharAt(s, i) = "-" \/ IsDigit(CharAt(s, i)) THEN parseNumber(s, i)
    ELSE IF OccursAt(s, <<"t", "r", "u", "e">>, i) THEN PDone(JTrue, i + 4)
    ELSE IF OccursAt(s, <<"f", "a", "l", "s", "e">>, i) THEN PDone(JFalse, i + 5)
    ELSE IF OccursAt(s, <<"n", "u", "l", "l">>, i) THEN PDone(JNull, i + 4)
    ELSE PFail

\* the member whose key, at j, decoded as key
memberFrom(s, j, m, key) ==
    MemberNext(s, MemberStep(s, j, m, key, parseJSON(s, valuePos(s, key), "value", <<>>)))

\* after a member: the next member, or the outcome
MemberNext(s, step) ==
    IF step.more THEN parseJSON(s, step.pos, "members", step.m) ELSE step.res

parseValue(s, i) == parseJSON(s, i, "value", <<>>)

\* what JSON.parse(text) gives when its value decoded as r
parsedText(text, r) ==
    IF r.ok /\ skipWs(text, r.pos) = Len(text) THEN Ok(r.val) ELSE Throw("SyntaxError")

\* JSON.parse(text): the value, or a SyntaxError
JSONparse(text) == parsedText(text, parseValue(text, skipWs(text, 0)))

HTTP == <<"H", "T", "T", "P">>

URL == <<"U", "R", "L">>

HEADERS == <<"H", "E", "A", "D", "E", "R", "S">>

QUERY == <<"Q", "U", "E", "R", "Y">>

BODY == <<"B", "O", "D", "Y">>

GET == <<"G", "E", "T">>

POST == <<"P", "O", "S", "T">>

\* the catch block of parseJSONStrict on the error of result r
rethrown(r, sectionName) ==
    IF r.ok THEN r
    ELSE IF sectionName = HEADERS THEN Throw(ErrJSON(HEADERS))
    ELSE IF sectionName = QUERY THEN Throw(ErrJSON(QUERY))
    ELSE IF sectionName = BODY THEN Throw(ErrJSON(BODY))
    ELSE r

parseJSONStrict(jsonString, sectionName) == rethrown(JSONparse(jsonString), sectionName)

----------------------------------------------------------------------------
(* buildQueryString and constructFullURL *)

\* the value of a decimal numeral
RECURSIVE NumVal(_)
NumVal(k) == IF k = <<>> THEN 0 ELSE 10 * NumVal(SubSeq(k, 1, Len(k) - 1)) + CodeOf(k[Len(k)]) - 48

\* the decimal numeral of n >= 0
RECURSIVE DecimalOf(_)
DecimalOf(n) == IF n < 10 THEN <<UnitOf(48 + n)>> ELSE Append(DecimalOf(n \div 10), UnitOf(48 + (n % 10)))

\* a <= b for digit strings of one length
RECURSIVE DigitsLeq(_, _)
DigitsLeq(a, b) ==
    \/ a = <<>>
    \/ CodeOf(Head(a)) < CodeOf(Head(b))
    \/ Head(a) = Head(b) /\ DigitsLeq(Tail(a), Tail(b))

\* a <= b for canonical numerals (no leading zero) of any size
NumeralLeq(a, b) == Len(a) < Len(b) \/ (Len(a) = Len(b) /\ DigitsLeq(a, b))

\* 2^32 - 2, the greatest array index
MaxArrayIndex == <<"4", "2", "9", "4", "9", "6", "7", "2", "9", "4">>

\* an array index: a canonical numeral of a value up to 2^32 - 2
IsArrayIndex(k) ==
    /\ Len(k) >= 1
    /\ \A i \in 1..Len(k) : IsDigit(k[i])
    /\ (k[1] # "0" \/ Len(k) = 1)
    /\ NumeralLeq(k, MaxArrayIndex)

\* the least numeral of a set of array-index keys
LeastKey(keys) == CHOOSE k \in keys : \A o \in keys : NumeralLeq(k, o)

\* the numerals of a set of array-index keys, ascending
RECURSIVE Ascending(_)
Ascending(keys) ==
    IF keys = {} THEN <<>>
    ELSE <<LeastKey(keys)>> \o Ascending(keys \ {LeastKey(keys)})

\* the keys of members m that are no array index, in insertion order
RECURSIVE NamedKeys(_)
NamedKeys(m) ==
    IF m = <<>> THEN <<>>
    ELSE IF IsArrayIndex(Head(m).k) THEN NamedKeys(Tail(m))
    ELSE <<Head(m).k>> \o NamedKeys(Tail(m))

\* whether a value is falsy (value || {} takes the {})
Falsy(v) ==
    \/ v.t \in {"null", "false"}
    \/ v.t = "number" /\ v.s = <<"0">>
    \/ v.t = "string" /\ v.s = <<>>

\* Object.keys taken to give the keys of an object in insertion order
ObjectKeysInsertionOrder(v) ==
    IF v.t = "object" THEN [i \in 1..Len(v.m) |-> v.m[i].k]
    ELSE IF v.t = "string" THEN [i \in 1..Len(v.s) |-> DecimalOf(i - 1)]
    ELSE <<>>

\* Object.keys(v): the array-index keys ascending, then the other keys in
\* insertion order; of a string, its indices; of another primitive, none
ObjectKeys(v) ==
    IF v.t = "object"
    THEN Ascending({v.m[i].k : i \in {j \in 1..Len(v.m) : IsArrayIndex(v.m[j].k)}})
             \o NamedKeys(v.m)
    ELSE IF v.t = "string" THEN [i \in 1..Len(v.s) |-> DecimalOf(i - 1)]
    ELSE <<>>

\* v[key], for key among Object.keys(v)
GetMember(v, key) ==
    IF v.t = "object"
    THEN v.m[CHOOSE i \in 1..Len(v.m) : v.m[i].k = key].v
    ELSE JString(<<At(v.s, NumVal(key))>>)

\* String(v)
StringOf(v) ==
    IF v.t \in {"string", "number"} THEN v.s
    ELSE IF v.t = "true" THEN <<"t", "r", "u", "e">>
    ELSE IF v.t = "false" THEN <<"f", "a", "l", "s", "e">>
    ELSE IF v.t = "null" THEN <<"n", "u", "l", "l">>
    ELSE <<"[", "o", "b", "j", "e", "c", "t", " ", "O", "b", "j", "e", "c", "t", "]">>

\* the units encodeURIComponent leaves as they are
Unreserved(c) ==
    \/ \E i \in 1..26 : LowerCase[i] = c \/ UpperCase[i] = c
    \/ IsDigit(c)
    \/ c \in {"-", "_", ".", "!", "~", "*", "'", "(", ")"}

PercentByte(b) == <<"%", HexDigits[(b \div 16) + 1], HexDigits[(b % 16) + 1]>>

\* the percent-encoded UTF-8 bytes of a code point
PercentUTF8(cp) ==
    IF cp < 128 THEN PercentByte(cp)
    ELSE IF cp < 2048
    THEN PercentByte(192 + (cp \div 64)) \o PercentByte(128 + (cp % 64))
    ELSE IF cp < 65536
    THEN PercentByte(224 + (cp \div 4096)) \o PercentByte(128 + ((cp \div 64) % 64))
             \o PercentByte(128 + (cp % 64))
    ELSE PercentByte(240 + (cp \div 262144)) \o PercentByte(128 + ((cp \div 4096) % 64))
             \o PercentByte(128 + ((cp \div 64) % 64)) \o PercentByte(128 + (cp % 64))

IsHighSurrogate(code) == code >= 55296 /\ code <= 56319

IsLowSurrogate(code) == code >= 56320 /\ code <= 57343

\* encodeURIComponent at a unit of code code that is not unreserved, next
\* being the code of the unit after it (0 when there is none): the encoding
\* to append and the units taken, or none taken for a lone surrogate
encodedUnit(code, next) ==
    IF IsLowSurrogate(code) THEN [taken |-> 0, text |-> <<>>]
    ELSE IF ~IsHighSurrogate(code) THEN [taken |-> 1, text |-> PercentUTF8(code)]
    ELSE IF ~IsLowSurrogate(next) THEN [taken |-> 0, text |-> <<>>]
    ELSE [taken |-> 2, text |-> PercentUTF8(65536 + 1024 * (code - 55296) + (next - 56320))]

\* the code of the unit at i, or 0 past the end
CodeAt(s, i) == IF i < Len(s) THEN CodeOf(At(s, i)) ELSE 0

RECURSIVE encodeFrom(_, _, _)
RECURSIVE encodeNext(_, _, _, _)

\* encodeURIComponent(s) from index i on: a lone surrogate throws URIError
encodeFrom(s, i, acc) ==
    IF i >= Len(s) THEN Ok(acc)
    ELSE IF Unreserved(At(s, i)) THEN encodeFrom(s, i + 1, Append(acc, At(s, i)))
    ELSE encodeNext(s, i, acc, encodedUnit(CodeAt(s, i), CodeAt(s, i + 1)))

encodeNext(s, i, acc, enc) ==
    IF enc.taken = 0 THEN Throw(ErrURIMalformed)
    ELSE encodeFrom(s, i + enc.taken, acc \o enc.text)

encodeURIComponent(s) == encodeFrom(s, 0, <<>>)

RECURSIVE buildParts(_, _, _, _)
RECURSIVE pushPart(_, _, _, _, _, _)

\* the for loop of buildQueryString from kIndex on, and the join('&')
buildParts(queryObject, keys, kIndex, joined) ==
    IF kIndex >= Len(keys) THEN Ok(joined)
    ELSE pushPart(queryObject, keys, kIndex, joined,
             encodeURIComponent(At(keys, kIndex)),
             encodeURIComponent(StringOf(GetMember(queryObject, At(keys, kIndex)))))

\* parts.push(`${encodedKey}=${encodedValue}`), and the iterations after it
pushPart(queryObject, keys, kIndex, joined, encodedKey, encodedValue) ==
    IF ~encodedKey.ok THEN encodedKey
    ELSE IF ~encodedValue.ok THEN encodedValue
    ELSE buildParts(queryObject, keys, kIndex + 1,
             (IF kIndex = 0 THEN <<>> ELSE joined \o <<"&">>)
                 \o encodedKey.val \o <<"=">> \o encodedValue.val)

\* buildQueryString, keys being Object.keys(queryObject || {})
queryStringOf(queryObject, keys) ==
    IF Len(keys) = 0 THEN Ok(<<>>) ELSE buildParts(queryObject, keys, 0, <<>>)

buildQueryString(queryObject) ==
    queryStringOf(queryObject,
                  ObjectKeys(IF Falsy(queryObject) THEN EmptyObject ELSE queryObject))

\* constructFullURL, queryString being what buildQueryString did
fullURLOf(baseURL, queryString) ==
    IF ~queryString.ok THEN queryString
    ELSE IF queryString.val = <<>> THEN Ok(baseURL)
    ELSE IF indexOf(baseURL, <<"?">>) # -1
    THEN Ok(baseURL \o <<"&">> \o queryString.val)
    ELSE Ok(baseURL \o <<"?">> \o queryString.val)

constructFullURL(baseURL, queryObject) == fullURLOf(baseURL, buildQueryString(queryObject))

----------------------------------------------------------------------------
(* parseReqline *)

allowedKeywords == <<HTTP, URL, HEADERS, QUERY, BODY>>

\* the locals of parseReqline before its loop
InitialLocals ==
    [seen |-> {}, httpMethod |-> <<>>, baseURL |-> <<>>,
     headers |-> EmptyObject, query |-> EmptyObject, body |-> EmptyObject]

\* sectionStep with no whitelist of methods
sectionStepAnyMethod(keyword, value, loc, json) ==
    IF keyword = HTTP
    THEN IF value # toUpperCase(value) THEN Throw(ErrMethodCase)
         ELSE Ok([loc EXCEPT !.httpMethod = value])
    ELSE IF keyword = URL THEN Ok([loc EXCEPT !.baseURL = value])
    ELSE IF ~json.ok THEN json
    ELSE IF keyword = HEADERS THEN Ok([loc EXCEPT !.headers = json.val])
    ELSE IF keyword = QUERY THEN Ok([loc EXCEPT !.query = json.val])
    ELSE IF keyword = BODY THEN Ok([loc EXCEPT !.body = json.val])
    ELSE Ok(loc)

\* the section of a segment: what the iteration does once its keyword passed
\* the keyword, duplicate and spacing checks (json: parseJSONStrict of the
\* value), on locals loc in which the keyword is marked seen
sectionStep(keyword, value, loc, json) ==
    IF keyword = HTTP
    THEN IF value # toUpperCase(value) THEN Throw(ErrMethodCase)
         ELSE IF value # GET /\ value # POST THEN Throw(ErrMethod)
         ELSE Ok([loc EXCEPT !.httpMethod = value])
    ELSE IF keyword = URL THEN Ok([loc EXCEPT !.baseURL = value])
    ELSE IF ~json.ok THEN json
    ELSE IF keyword = HEADERS THEN Ok([loc EXCEPT !.headers = json.val])
    ELSE IF keyword = QUERY THEN Ok([loc EXCEPT !.query = json.val])
    ELSE IF keyword = BODY THEN Ok([loc EXCEPT !.body = json.val])
    ELSE Ok(loc)

\* keywordStep with no check of the sections seen
keywordStepNoDuplicateCheck(segment, keyword, value, loc, spacing) ==
    IF keyword # toUpperCase(keyword) THEN Throw(ErrKeywordCase)
    ELSE IF \A i \in 1..Len(allowedKeywords) : allowedKeywords[i] # keyword
    THEN Throw(ErrKeywordCase)
    ELSE IF ~spacing.ok THEN spacing
    ELSE sectionStep(keyword, value, [loc EXCEPT !.seen = loc.seen \cup {keyword}],
                     parseJSONStrict(value, keyword))

\* the iteration from the keyword checks on (spacing: what
\* ensureSingleSpaceAfterKeyword did)
keywordStep(segment, keyword, value, loc, spacing) ==
    IF keyword # toUpperCase(keyword) THEN Throw(ErrKeywordCase)
    ELSE IF \A i \in 1..Len(allowedKeywords) : allowedKeywords[i] # keyword
    THEN Throw(ErrKeywordCase)
    ELSE IF keyword \in loc.seen THEN Throw(ErrDuplicate(keyword))
    ELSE IF ~spacing.ok THEN spacing
    ELSE sectionStep(keyword, value, [loc EXCEPT !.seen = loc.seen \cup {keyword}],
                     parseJSONStrict(value, keyword))

\* the iteration, firstSpaceIndex being segment.indexOf(' ')
spaceStep(segment, firstSpaceIndex, loc) ==
    IF firstSpaceIndex = -1 THEN Throw(ErrMissingSpace)
    ELSE keywordStep(segment, slice(segment, 0, firstSpaceIndex),
                     sliceFrom(segment, firstSpaceIndex + 1), loc,
                     ensureSingleSpaceAfterKeyword(segment, slice(segment, 0, firstSpaceIndex)))

\* one iteration of the for loop of parseReqline, on segment with locals
\* loc: the locals after it, or the error it throws
segmentStep(segment, loc) == spaceStep(segment, indexOf(segment, <<" ">>), loc)

RECURSIVE parseSegments(_, _, _)
RECURSIVE nextSegment(_, _, _)

\* the for loop of parseReqline from sIndex on: the locals after it, or the
\* first error thrown
parseSegments(segs, sIndex, loc) ==
    IF sIndex >= Len(segs) THEN Ok(loc)
    ELSE nextSegment(segs, sIndex, segmentStep(At(segs, sIndex), loc))

\* the loop after iteration sIndex did step
nextSegment(segs, sIndex, step) ==
    IF ~step.ok THEN step ELSE parseSegments(segs, sIndex + 1, step.val)

\* !segments[i]: no such element, or the empty string
Missing(segs, i) == i >= Len(segs) \/ Len(At(segs, i)) = 0

\* the descriptor parseReqline returns, fullURL being what constructFullURL did
descriptor(loc, fullURL) ==
    IF ~fullURL.ok THEN fullURL
    ELSE Ok([method |-> loc.httpMethod,
             url |-> loc.baseURL,
             headers |-> loc.headers,
             query |-> loc.query,
             body |-> loc.body,
             full_url |-> fullURL.val])

\* parseReqline after its loop, which did loop
afterLoop(loop) ==
    IF ~loop.ok THEN loop
    ELSE descriptor(loop.val, constructFullURL(loop.val.baseURL, loop.val.query))

\* loopOf with the loop run before the two order checks
loopOfSegmentsFirst(split) ==
    IF ~split.ok THEN split
    ELSE IF ~parseSegments(split.val, 0, InitialLocals).ok
    THEN parseSegments(split.val, 0, InitialLocals)
    ELSE IF Missing(split.val, 0) \/ slice(At(split.val, 0), 0, 4) # HTTP
    THEN Throw(ErrMissingHTTP)
    ELSE IF Missing(split.val, 1) \/ slice(At(split.val, 1), 0, 3) # URL
    THEN Throw(ErrMissingURL)
    ELSE parseSegments(split.val, 0, InitialLocals)

\* parseReqline from splitByPipes, which did split, to the end of its loop:
\* the two order checks, then the loop
loopOf(split) ==
    IF ~split.ok THEN split
    ELSE IF Missing(split.val, 0) \/ slice(At(split.val, 0), 0, 4) # HTTP
    THEN Throw(ErrMissingHTTP)
    ELSE IF Missing(split.val, 1) \/ slice(At(split.val, 1), 0, 3) # URL
    THEN Throw(ErrMissingURL)
    ELSE parseSegments(split.val, 0, InitialLocals)

parseReqline(statement) == afterLoop(loopOf(splitByPipes(statement)))

NoCall == [called |-> FALSE, baseURL |-> <<>>, queryObject |-> JNull, result |-> NotRun]

\* the call of constructFullURL after a loop that did loop, or none
callAfter(loop) ==
    IF ~loop.ok THEN NoCall
    ELSE [called |-> TRUE, baseURL |-> loop.val.baseURL, queryObject |-> loop.val.query,
          result |-> constructFullURL(loop.val.baseURL, loop.val.query)]

\* the call parseReqline(statement) makes of constructFullURL, or none
builderCall(statement) == callAfter(loopOf(splitByPipes(statement)))

----------------------------------------------------------------------------
(* The handler's collaborators: what the HTTP client may do *)

Payload(name) == [kind |-> "payload", error |-> FALSE, message |-> name]

NoData == [kind |-> "none", error |-> FALSE, message |-> ""]

\* { error: true, message }
Synthesized(message) == [kind |-> "synthesized", error |-> TRUE, message |-> message]

\* what HttpRequest.get / post may resolve with: { statusCode, data }
Resolutions ==
    {[statusCode |-> sc, data |-> Payload("page")] : sc \in {200, 404}}

\* what HttpRequest.get / post may throw or reject with: a value that is no
\* object (undefined, null), an Error with no context.response, or an Error
\* with a context.response { statusCode, data } (statusCode 0 and data NoData
\* stand for a falsy or absent field)
Rejections ==
    {[type |-> t, message |-> "", hasResponse |-> FALSE, statusCode |-> 0, data |-> NoData] :
        t \in {"undefined", "null"}}
    \cup {[type |-> "error", message |-> "connect ECONNREFUSED", hasResponse |-> FALSE,
           statusCode |-> 0, data |-> NoData]}
    \cup {[type |-> "error", message |-> "Request failed", hasResponse |-> TRUE,
           statusCode |-> sc, data |-> d] : sc \in {0, 500}, d \in {NoData, Payload("oops")}}

NoOutcome == [kind |-> "none", statusCode |-> 0, data |-> NoData, e |-> <<>>]

Resolved(res) == [kind |-> "resolved", statusCode |-> res.statusCode, data |-> res.data, e |-> <<>>]

Rejected(e) == [kind |-> "rejected", statusCode |-> 0, data |-> NoData, e |-> e]

----------------------------------------------------------------------------
(* The handler.  One invocation is followed from the request to the answer: *)
(* the handler and the parser keep nothing from one invocation to the next, *)
(* so every invocation starts from Init.                                    *)

NoResponse == [status |-> 0, data |-> [error |-> FALSE, message |-> ""]]

DefaultMessage == "Some error occured. Please check your reqline statement"

\* the outer catch: { status: 400, data: { error: true, message } }
Response400(message) ==
    [status |-> 400,
     data |-> [error |-> TRUE, message |-> IF message = "" THEN DefaultMessage ELSE message]]

\* value || {}
OrEmpty(v) == IF Falsy(v) THEN EmptyObject ELSE v

\* the 200 answer (the duration and the two timestamps, read from the
\* clock, are left out: nothing below depends on them)
Response200(p, httpStatus, responseData) ==
    [status |-> 200,
     data |-> [request |-> [query |-> OrEmpty(p.query), body |-> OrEmpty(p.body),
                            headers |-> OrEmpty(p.headers), full_url |-> p.full_url],
               response |-> [http_status |-> httpStatus, response_data |-> responseData]]]

\* ClientCalls with get called whatever the method
ClientCallsGetOnly(p) ==
    <<[fn |-> "get", url |-> p.full_url, body |-> JV("undefined", <<>>, <<>>),
       headers |-> p.headers]>>

\* the call the handler makes for a parsed method, or none
ClientCalls(p) ==
    IF p.method = GET
    THEN <<[fn |-> "get", url |-> p.full_url, body |-> JV("undefined", <<>>, <<>>),
            headers |-> p.headers]>>
    ELSE IF p.method = POST
    THEN <<[fn |-> "post", url |-> p.full_url, body |-> p.body, headers |-> p.headers]>>
    ELSE <<>>

\* CatchBlock with the status zeroed and the error object synthesized
\* whatever the thrown value carries
CatchBlockZeroed(p, e) ==
    IF e.type \notin {"undefined", "null"}
    THEN Response200(p, 0, Synthesized(e.message))
    ELSE Response400("Cannot read properties of " \o e.type \o " (reading 'message')")

\* the inner catch block on a thrown value e: the 200 answer, or the 400 of
\* the outer catch when reading e.message itself throws a TypeError
CatchBlock(p, e) ==
    LET isObject == e.type \notin {"undefined", "null"}
        hasCtx == isObject /\ e.hasResponse
        httpStatus == IF hasCtx THEN e.statusCode ELSE 0
        hasData == hasCtx /\ e.data.kind # "none"
    IN  IF hasData THEN Response200(p, httpStatus, e.data)
        ELSE IF isObject THEN Response200(p, httpStatus, Synthesized(e.message))
        ELSE Response400("Cannot read properties of " \o e.type \o " (reading 'message')")

\* typeof reqline !== 'string'
InvokeNonString(v) ==
    /\ pc = "idle"
    /\ reqline' = v
    /\ segments' = NotRun
    /\ parsed' = NotRun
    /\ built' = NoCall
    /\ calls' = <<>>
    /\ outcome' = NoOutcome
    /\ response' = Response400(ErrInvalidInput)
    /\ pc' = "done"

\* the handler up to its await: parseReqline, then the client call, or the
\* 400 of the outer catch
InvokeString(statement) ==
    /\ pc = "idle"
    /\ reqline' = statement
    /\ segments' = splitByPipes(statement)
    /\ parsed' = parseReqline(statement)
    /\ built' = builderCall(statement)
    /\ outcome' = NoOutcome
    /\ IF ~parsed'.ok
       THEN /\ calls' = <<>>
            /\ response' = Response400(parsed'.err)
            /\ pc' = "done"
       ELSE /\ calls' = ClientCalls(parsed'.val)
            /\ IF calls' = <<>>
               THEN /\ response' = Response200(parsed'.val, 0, NoData)
                    /\ pc' = "done"
               ELSE /\ response' = NoResponse
                    /\ pc' = "awaiting"

\* the awaited call resolves with res
ClientResolve(res) ==
    /\ pc = "awaiting"
    /\ outcome' = Resolved(res)
    /\ response' = Response200(parsed.val, res.statusCode, res.data)
    /\ pc' = "done"
    /\ UNCHANGED <<reqline, segments, parsed, built, calls>>

\* the awaited call throws or rejects with e
ClientReject(e) ==
    /\ pc = "awaiting"
    /\ outcome' = Rejected(e)
    /\ response' = CatchBlock(parsed.val, e)
    /\ pc' = "done"
    /\ UNCHANGED <<reqline, segments, parsed, built, calls>>

----------------------------------------------------------------------------
(* The requests checked *)

MaxRich == 2

MaxDeep == 4

\* the texts a statement may start with
FirstPieces ==
    {
    \* 'HTTP GET'
       <<"H", "T", "T", "P", " ", "G", "E", "T">>,
    \* 'HTTP POST'
       <<"H", "T", "T", "P", " ", "P", "O", "S", "T">>,
    \* 'HTTP PUT'
       <<"H", "T", "T", "P", " ", "P", "U", "T">>,
    \* 'HTTP get'
       <<"H", "T", "T", "P", " ", "g", "e", "t">>,
    \* 'HTTP  GET'
       <<"H", "T", "T", "P", " ", " ", "G", "E", "T">>,
    \* 'HTTP'
       <<"H", "T", "T", "P">>,
    \* 'HTTPS GET'
       <<"H", "T", "T", "P", "S", " ", "G", "E", "T">>,
    \* 'http GET'
       <<"h", "t", "t", "p", " ", "G", "E", "T">>,
    \* 'URL http://x'
       <<"U", "R", "L", " ", "h", "t", "t", "p", ":", "/", "/", "x">>,
    \* 'HTTP GET '
       <<"H", "T", "T", "P", " ", "G", "E", "T", " ">>,
    \* (empty)
       <<>>,
    \* ' HTTP GET'
       <<" ", "H", "T", "T", "P", " ", "G", "E", "T">>,
    \* '|'
       <<"|">>,
    \* 'HTTP GET|URL http://x'
       <<"H", "T", "T", "P", " ", "G", "E", "T", "|", "U", "R", "L", " ", "h", "t", "t", "p", ":", "/", "/", "x">>
    }

\* the texts that may follow the first delimiter
SecondPieces ==
    {
    \* 'URL http://x'
       <<"U", "R", "L", " ", "h", "t", "t", "p", ":", "/", "/", "x">>,
    \* 'URL http://x/y?z=1'
       <<"U", "R", "L", " ", "h", "t", "t", "p", ":", "/", "/", "x", "/", "y", "?", "z", "=", "1">>,
    \* 'URL a b'
       <<"U", "R", "L", " ", "a", " ", "b">>,
    \* 'URL'
       <<"U", "R", "L">>,
    \* 'URL  http://x'
       <<"U", "R", "L", " ", " ", "h", "t", "t", "p", ":", "/", "/", "x">>,
    \* 'URLS http://x'
       <<"U", "R", "L", "S", " ", "h", "t", "t", "p", ":", "/", "/", "x">>,
    \* 'url http://x'
       <<"u", "r", "l", " ", "h", "t", "t", "p", ":", "/", "/", "x">>,
    \* 'HTTP GET'
       <<"H", "T", "T", "P", " ", "G", "E", "T">>,
    \* 'HTTP POST'
       <<"H", "T", "T", "P", " ", "P", "O", "S", "T">>,
    \* 'HEADERS {}'
       <<"H", "E", "A", "D", "E", "R", "S", " ", "{", "}">>,
    \* 'URL http://x|y'
       <<"U", "R", "L", " ", "h", "t", "t", "p", ":", "/", "/", "x", "|", "y">>,
    \* ' URL http://x'
       <<" ", "U", "R", "L", " ", "h", "t", "t", "p", ":", "/", "/", "x">>,
    \* '| URL http://x'
       <<"|", " ", "U", "R", "L", " ", "h", "t", "t", "p", ":", "/", "/", "x">>,
    \* 'URL http://x '
       <<"U", "R", "L", " ", "h", "t", "t", "p", ":", "/", "/", "x", " ">>,
    \* 'URL http://x |'
       <<"U", "R", "L", " ", "h", "t", "t", "p", ":", "/", "/", "x", " ", "|">>
    }

\* the texts that may follow a well-formed HTTP and URL section
RichPieces ==
    {
    \* 'HEADERS {}'
       <<"H", "E", "A", "D", "E", "R", "S", " ", "{", "}">>,
    \* 'HEADERS {"h":"v"} '
       <<"H", "E", "A", "D", "E", "R", "S", " ", "{", "\"", "h", "\"", ":", "\"", "v", "\"", "}", " ">>,
    \* 'QUERY {"a":"1","b":"2"}'
       <<"Q", "U", "E", "R", "Y", " ", "{", "\"", "a", "\"", ":", "\"", "1", "\"", ",", "\"", "b", "\"", ":", "\"", "2", "\"", "}">>,
    \* 'QUERY {"2":"a","1":"b"}'
       <<"Q", "U", "E", "R", "Y", " ", "{", "\"", "2", "\"", ":", "\"", "a", "\"", ",", "\"", "1", "\"", ":", "\"", "b", "\"", "}">>,
    \* 'QUERY {"a b":"c&d"}'
       <<"Q", "U", "E", "R", "Y", " ", "{", "\"", "a", " ", "b", "\"", ":", "\"", "c", "&", "d", "\"", "}">>,
    \* 'QUERY {"a":"\ud800"}'
       <<"Q", "U", "E", "R", "Y", " ", "{", "\"", "a", "\"", ":", "\"", "\\", "u", "d", "8", "0", "0", "\"", "}">>,
    \* 'QUERY {"n":1,"t":true,"o":{}}'
       <<"Q", "U", "E", "R", "Y", " ", "{", "\"", "n", "\"", ":", "1", ",", "\"", "t", "\"", ":", "t", "r", "u", "e", ",", "\"", "o", "\"", ":", "{", "}", "}">>,
    \* 'QUERY "ab"'
       <<"Q", "U", "E", "R", "Y", " ", "\"", "a", "b", "\"">>,
    \* 'QUERY null'
       <<"Q", "U", "E", "R", "Y", " ", "n", "u", "l", "l">>,
    \* 'BODY {}'
       <<"B", "O", "D", "Y", " ", "{", "}">>,
    \* 'BODY {bad}'
       <<"B", "O", "D", "Y", " ", "{", "b", "a", "d", "}">>,
    \* 'BODY {"a":"b | c"}'
       <<"B", "O", "D", "Y", " ", "{", "\"", "a", "\"", ":", "\"", "b", " ", "|", " ", "c", "\"", "}">>,
    \* 'HTTP POST'
       <<"H", "T", "T", "P", " ", "P", "O", "S", "T">>,
    \* 'URL y'
       <<"U", "R", "L", " ", "y">>,
    \* 'BODY  {}'
       <<"B", "O", "D", "Y", " ", " ", "{", "}">>,
    \* 'body {}'
       <<"b", "o", "d", "y", " ", "{", "}">>,
    \* '| BODY {}'
       <<"|", " ", "B", "O", "D", "Y", " ", "{", "}">>,
    \* 'HEADERS'
       <<"H", "E", "A", "D", "E", "R", "S">>
    }

\* the well-formed optional sections, for the long statements
DeepPieces ==
    {
    \* 'HEADERS {}'
       <<"H", "E", "A", "D", "E", "R", "S", " ", "{", "}">>,
    \* 'QUERY {"a":"1","b":"2"}'
       <<"Q", "U", "E", "R", "Y", " ", "{", "\"", "a", "\"", ":", "\"", "1", "\"", ",", "\"", "b", "\"", ":", "\"", "2", "\"", "}">>,
    \* 'BODY {"k":"v"}'
       <<"B", "O", "D", "Y", " ", "{", "\"", "k", "\"", ":", "\"", "v", "\"", "}">>
    }


Delimiter == <<" ", "|", " ">>

\* the texts joined by " | "
RECURSIVE Joined(_)
Joined(texts) ==
    IF Len(texts) = 0 THEN <<>>
    ELSE IF Len(texts) = 1 THEN texts[1]
    ELSE texts[1] \o Delimiter \o Joined(Tail(texts))

\* the sequences of at most n elements of S
SeqsUpTo(S, n) == UNION {[1..k -> S] : k \in 0..n}

\* the well-formed first two sections the longer statements start with
Bases ==
    {<<HTTP \o <<" ">> \o GET, URL \o <<" ", "h", "t", "t", "p", ":", "/", "/", "x", "/", "y">>>>,
     <<HTTP \o <<" ">> \o POST,
       URL \o <<" ", "h", "t", "t", "p", ":", "/", "/", "x", "/", "y", "?", "z", "=", "1">>>>}

Statements ==
    {JSString(Joined(<<f>>)) : f \in FirstPieces}
    \cup {JSString(Joined(<<f, s>>)) : f \in FirstPieces, s \in SecondPieces}
    \cup {JSString(Joined(b \o x)) : b \in Bases, x \in SeqsUpTo(RichPieces, MaxRich)}
    \cup {JSString(Joined(b \o x)) : b \in Bases, x \in SeqsUpTo(DeepPieces, MaxDeep)}

\* rc.body absent (undefined), reqline null, a number, an object
NonStrings == {JSOther("undefined"), JSOther("object"), JSOther("number")}

Init ==
    /\ pc = "idle"
    /\ reqline = JSOther("undefined")
    /\ segments = NotRun
    /\ parsed = NotRun
    /\ built = NoCall
    /\ calls = <<>>
    /\ outcome = NoOutcome
    /\ response = NoResponse

Next ==
    \/ \E v \in NonStrings : InvokeNonString(v)
    \/ \E statement \in Statements : InvokeString(statement)
    \/ \E res \in Resolutions : ClientResolve(res)
    \/ \E e \in Rejections : ClientReject(e)

Spec == Init /\ [][Next]_vars

----------------------------------------------------------------------------
(* The properties of the specification, each stated on the states of the   *)
(* handler                                                                  *)

Invoked == pc # "idle"

IsStringRequest == Invoked /\ reqline.type = "string"

Units(s) == {s[i] : i \in 1..Len(s)}

HasPipe(s) == "|" \in Units(s)

StartsWith(s, p) == Len(s) >= Len(p) /\ SubSeq(s, 1, Len(p)) = p

Rest(s, p) == SubSeq(s, Len(p) + 1, Len(s))

\* the text of a segment before its first space, the whole of it if none
KeywordOf(segment) ==
    IF \E i \in 1..Len(segment) : segment[i] = " "
    THEN SubSeq(segment, 1, (CHOOSE i \in 1..Len(segment) :
                                /\ segment[i] = " "
                                /\ \A j \in 1..(i - 1) : segment[j] # " ") - 1)
    ELSE segment

\* 'HTTP <M> | URL '
SimplePrefix(M) == HTTP \o <<" ">> \o M \o <<" ", "|", " ">> \o URL \o <<" ">>

SimpleValue(u) ==
    /\ u # <<>>
    /\ ~HasPipe(u)
    /\ u[1] # " "
    /\ u[Len(u)] # " "

\* C1: a statement of the exact form HTTP <M> | URL <u>, M being GET or
\* POST and u a non-empty value with no pipe and no space at either end,
\* parses to method M, url u, empty headers, query and body, and full_url u
C1_SimpleStatementParses ==
    \A M \in {GET, POST} :
        (/\ IsStringRequest
         /\ StartsWith(reqline.chars, SimplePrefix(M))
         /\ SimpleValue(Rest(reqline.chars, SimplePrefix(M))))
        => parsed = Ok([method |-> M,
                        url |-> Rest(reqline.chars, SimplePrefix(M)),
                        headers |-> JObject(<<>>),
                        query |-> JObject(<<>>),
                        body |-> JObject(<<>>),
                        full_url |-> Rest(reqline.chars, SimplePrefix(M))])

C1_Witness ==
    /\ IsStringRequest
    /\ reqline.text = "HTTP POST | URL http://x/y?z=1"
    /\ parsed.ok
    /\ Text(parsed.val.full_url) = "http://x/y?z=1"

\* C2: the answer is a 400 carrying the reason when the reqline is no string
\* or parseReqline throws, and a 200 when parseReqline returns, whatever the
\* client call did
C2_StatusFollowsParsing ==
    pc = "done" =>
        /\ reqline.type # "string"
           => response = [status |-> 400,
                          data |-> [error |-> TRUE, message |-> "Invalid reqline input"]]
        /\ (reqline.type = "string" /\ ~parsed.ok)
           => response = [status |-> 400,
                          data |-> [error |-> TRUE, message |-> parsed.err]]
        /\ (reqline.type = "string" /\ parsed.ok) => response.status = 200

\* C3 as the specification has it: a first segment whose keyword (the text
\* before its first space) is not HTTP fails with the missing-HTTP error,
\* else a second segment that is absent or whose keyword is not URL fails
\* with the missing-URL error
C3_OrderByKeyword ==
    (IsStringRequest /\ segments.ok) =>
        IF KeywordOf(segments.val[1]) # HTTP
        THEN parsed = Throw("Missing required HTTP keyword")
        ELSE (Len(segments.val) < 2 \/ KeywordOf(segments.val[2]) # URL)
             => parsed = Throw("Missing required URL keyword")

\* C3: a first segment that does not start with the four characters HTTP
\* fails with the missing-HTTP error, else a second segment that is absent or
\* does not start with the three characters URL fails with the missing-URL
\* error, both before any error of a single segment; URL http://x | HTTP GET
\* fails with the missing-HTTP error
C3_OrderByPrefix ==
    /\ (IsStringRequest /\ segments.ok) =>
           IF ~StartsWith(segments.val[1], HTTP)
           THEN parsed = Throw("Missing required HTTP keyword")
           ELSE (Len(segments.val) < 2 \/ ~StartsWith(segments.val[2], URL))
                => parsed = Throw("Missing required URL keyword")
    /\ (IsStringRequest /\ reqline.text = "URL http://x | HTTP GET")
           => parsed = Throw("Missing required HTTP keyword")

C3_Witness ==
    /\ IsStringRequest
    /\ reqline.text = "http GET | URL http://x"
    /\ segments.ok
    /\ parsed.err = "Missing required HTTP keyword"

Blank(segment) == \A j \in 1..Len(segment) : segment[j] = " "

\* a pipe at the start or the end, or two pipes with only the padding space
\* between them
EmptySegmentIn(s) ==
    \/ s[1] = "|"
    \/ s[Len(s)] = "|"
    \/ \E i \in 1..(Len(s) - 2) : s[i] = "|" /\ s[i + 1] = " " /\ s[i + 2] = "|"

\* C4: a statement (with no space at either end) where a pipe stands at the
\* start or the end, or two pipes have only the padding space between them,
\* is rejected by splitByPipes with the pipe-spacing error, and splitByPipes
\* returns no empty or blank segment
C4_NoBlankSegment ==
    (/\ IsStringRequest
     /\ reqline.chars # <<>>
     /\ reqline.chars[1] # " "
     /\ reqline.chars[Len(reqline.chars)] # " ")
    => /\ EmptySegmentIn(reqline.chars)
          => segments = Throw("Invalid spacing around pipe delimiter")
       /\ segments.ok => \A k \in 1..Len(segments.val) : ~Blank(segments.val[k])

HasKeyword(segment, keyword) == StartsWith(segment, keyword \o <<" ">>)

\* the loop of parseReqline gets to segment i: no earlier segment threw
ReachedBy(segs, i) == parseSegments(SubSeq(segs, 1, i - 1), 0, InitialLocals).ok

OrderChecksPass(segs) ==
    /\ Len(segs) >= 2
    /\ StartsWith(segs[1], HTTP)
    /\ StartsWith(segs[2], URL)

\* C5: after segmentation and the two order checks, when the loop reaches a
\* segment whose keyword is an allowed one and was the keyword of an earlier
\* segment, parsing fails with the duplicate-section error naming it, whatever
\* the value of the segment; HTTP GET | URL http://x | HTTP POST fails with
\* the duplicate-section error naming HTTP
C5_DuplicateSection ==
    /\ (IsStringRequest /\ segments.ok /\ OrderChecksPass(segments.val)) =>
          \A i \in 1..Len(segments.val) :
              \A keyword \in {HTTP, URL, HEADERS, QUERY, BODY} :
                  (/\ HasKeyword(segments.val[i], keyword)
                   /\ \E j \in 1..(i - 1) : HasKeyword(segments.val[j], keyword)
                   /\ ReachedBy(segments.val, i))
                  => parsed = Throw("Duplicate section " \o Text(keyword))
    /\ (IsStringRequest /\ reqline.text = "HTTP GET | URL http://x/y | HTTP POST")
          => parsed = Throw("Duplicate section HTTP")

C5_Witness ==
    /\ IsStringRequest
    /\ reqline.text = "HTTP GET | URL http://x/y | BODY {} | BODY {bad}"
    /\ parsed.err = "Duplicate section BODY"

\* baseUrl + sep + the pairs of mapping m taken in the given order
Separator(baseURL) == IF "?" \in Units(baseURL) THEN <<"&">> ELSE <<"?">>

PairOf(member) ==
    encodeURIComponent(member.k).val \o <<"=">>
        \o encodeURIComponent(StringOf(member.v)).val

RECURSIVE PairsJoined(_, _, _)
PairsJoined(m, order, n) ==
    IF n = 0 THEN <<>>
    ELSE IF n = 1 THEN PairOf(m[order[1]])
    ELSE PairsJoined(m, order, n - 1) \o <<"&">> \o PairOf(m[order[n]])

Serialized(baseURL, m, order) ==
    IF m = <<>> THEN baseURL
    ELSE baseURL \o Separator(baseURL) \o PairsJoined(m, order, Len(m))

InsertionOrder(m) == [i \in 1..Len(m) |-> i]

\* key a (the ia-th inserted) comes before key b (the ib-th) among the own
\* keys of an object: array indices ascending, then the others as inserted
KeyPrecedes(a, b, ia, ib) ==
    IF IsArrayIndex(a)
    THEN IsArrayIndex(b) => NumeralLeq(a, b)
    ELSE ~IsArrayIndex(b) /\ ia < ib

OwnKeyOrder(m) ==
    CHOOSE order \in [1..Len(m) -> 1..Len(m)] :
        /\ \A p, q \in 1..Len(m) : p # q => order[p] # order[q]
        /\ \A p, q \in 1..Len(m) :
               p < q => KeyPrecedes(m[order[p]].k, m[order[q]].k, order[p], order[q])

Encodable(m) ==
    \A i \in 1..Len(m) :
        encodeURIComponent(m[i].k).ok /\ encodeURIComponent(StringOf(m[i].v)).ok

BuiltFromMapping == IsStringRequest /\ built.called /\ built.queryObject.t = "object"

QueryExample == "HTTP GET | URL http://x/y | QUERY {\"a\":\"1\",\"b\":\"2\"}"

\* C6 as the specification has it: the builder returns the base URL when the
\* mapping is empty, else the base URL, ? or &, and the encoded pairs in the
\* insertion order of the mapping
C6_InsertionOrder ==
    /\ BuiltFromMapping
          => built.result = Ok(Serialized(built.baseURL, built.queryObject.m,
                                          InsertionOrder(built.queryObject.m)))
    /\ (IsStringRequest /\ reqline.text = QueryExample)
          => (parsed.ok /\ Text(parsed.val.full_url) = "http://x/y?a=1&b=2")

\* C6: the builder returns the base URL when the mapping is empty, else the
\* base URL, ? when the base URL holds no ? and & otherwise, and the encoded
\* pairs in the order of the own keys of the mapping (the array-index keys
\* ascending, then the other keys as inserted); it throws "URI malformed"
\* when a key or a value holds a lone surrogate; the example gives
\* http://x/y?a=1&b=2
C6_OwnKeyOrder ==
    /\ BuiltFromMapping
          => IF Encodable(built.queryObject.m)
             THEN built.result = Ok(Serialized(built.baseURL, built.queryObject.m,
                                               OwnKeyOrder(built.queryObject.m)))
             ELSE built.result = Throw("URI malformed")
    /\ (IsStringRequest /\ reqline.text = QueryExample)
          => (parsed.ok /\ Text(parsed.val.full_url) = "http://x/y?a=1&b=2")

C6_Witness ==
    /\ BuiltFromMapping
    /\ built.result.ok
    /\ Text(built.baseURL) = "http://x/y?z=1"
    /\ Text(built.result.val) = "http://x/y?z=1&1=b&2=a"

FailedWithError == pc = "done" /\ outcome.kind = "rejected" /\ outcome.e.type = "error"

\* C7 as the specification has it: when the client call fails (here with an
\* Error object), the answer has http_status 0 and a synthesized error object
C7_FailureZeroed ==
    FailedWithError =>
        /\ response.status = 200
        /\ response.data.response.http_status = 0
        /\ response.data.response.response_data
               = [kind |-> "synthesized", error |-> TRUE, message |-> outcome.e.message]

\* C7: when the client call fails with an Error object, the answer is a 200
\* whose http_status is the statusCode of the error's context.response when
\* there is one (and it is truthy) and 0 otherwise, and whose response_data is
\* the data of that context.response when there is one (and it is truthy) and
\* the synthesized { error: true, message } otherwise
C7_FailureCaptured ==
    FailedWithError =>
        /\ response.status = 200
        /\ response.data.response.http_status
               = (IF outcome.e.hasResponse THEN outcome.e.statusCode ELSE 0)
        /\ response.data.response.response_data
               = (IF outcome.e.hasResponse /\ outcome.e.data.kind # "none"
                  THEN outcome.e.data
                  ELSE [kind |-> "synthesized", error |-> TRUE, message |-> outcome.e.message])

C7_Witness ==
    /\ FailedWithError
    /\ outcome.e.hasResponse
    /\ outcome.e.statusCode = 500
    /\ outcome.e.data.kind = "none"
    /\ response.data.response.http_status = 500
    /\ response.data.response.response_data.kind = "synthesized"

SegmentsOf(keyword) ==
    {i \in 1..Len(segments.val) : KeywordOf(segments.val[i]) = keyword}

\* C8: a descriptor is returned only with method GET or POST, a non-empty
\* url, and a statement with exactly one HTTP segment, the first, and exactly
\* one URL segment, the second, which hold the method and the url
C8_DescriptorWellFormed ==
    (IsStringRequest /\ parsed.ok) =>
        /\ parsed.val.method \in {GET, POST}
        /\ parsed.val.url # <<>>
        /\ segments.ok
        /\ SegmentsOf(HTTP) = {1}
        /\ SegmentsOf(URL) = {2}
        /\ segments.val[1] = HTTP \o <<" ">> \o parsed.val.method
        /\ segments.val[2] = URL \o <<" ">> \o parsed.val.url

C8_Witness ==
    /\ IsStringRequest
    /\ parsed.ok
    /\ parsed.val.method = POST
    /\ Len(segments.val) = 5
    /\ pc = "done"

\* C9: the client is called at most once, get for GET and post for POST,
\* only after parseReqline returned, never when the reqline is no string or
\* parsing failed, and after a call the answer is produced only once the
\* call resolved or rejected
C9_SingleClientCall ==
    /\ Len(calls) <= 1
    /\ calls # <<>> =>
          /\ reqline.type = "string"
          /\ parsed.ok
          /\ \/ parsed.val.method = GET /\ calls[1].fn = "get"
             \/ parsed.val.method = POST /\ calls[1].fn = "post"
          /\ calls[1].url = parsed.val.full_url
    /\ (Invoked /\ (reqline.type # "string" \/ ~parsed.ok)) => calls = <<>>
    /\ (calls # <<>> /\ pc = "awaiting") => (outcome.kind = "none" /\ response.status = 0)
    /\ (calls # <<>> /\ response.status # 0) => outcome.kind \in {"resolved", "rejected"}

C9_Witness ==
    /\ pc = "done"
    /\ outcome.kind = "rejected"
    /\ Len(calls) = 1
    /\ calls[1].fn = "post"
    /\ response.status = 200

PipesOf(s) == {i \in 1..Len(s) : s[i] = "|"}

\* exactly one space on each side of the pipe at place i of s
SinglySpaced(s, i) ==
    /\ i >= 3
    /\ i + 2 <= Len(s)
    /\ s[i - 1] = " "
    /\ s[i + 1] = " "
    /\ s[i - 2] # " "
    /\ s[i + 2] # " "

\* C10: every pipe of the statement delimits: splitByPipes returns one
\* segment more than there are pipes and no segment holds a pipe; in a
\* statement that parses every pipe has exactly one space on each side, there
\* are 2 to 5 segments, and neither the url nor a section holds a pipe
C10_EveryPipeDelimits ==
    /\ (IsStringRequest /\ segments.ok) =>
          /\ Len(segments.val) = Cardinality(PipesOf(reqline.chars)) + 1
          /\ \A k \in 1..Len(segments.val) : ~HasPipe(segments.val[k])
    /\ (IsStringRequest /\ parsed.ok) =>
          /\ \A i \in PipesOf(reqline.chars) : SinglySpaced(reqline.chars, i)
          /\ Len(segments.val) \in 2..5
          /\ ~HasPipe(parsed.val.url)

C10_Witness ==
    /\ IsStringRequest
    /\ parsed.ok
    /\ Cardinality(PipesOf(reqline.chars)) = 4
    /\ Len(segments.val) = 5

====
